---- MODULE Spec2Model ----
(***************************************************************************)
(* Model of the tag utilities of rtk-query-tags-util.                      *)
(*                                                                         *)
(* src/CacheUtils.ts      class CacheUtils (withTags built on ramda        *)
(*                        compose)                                         *)
(* src/unnamed/part_000   the same class with static helpers (withTags     *)
(*                        built on ramda composeWith)                      *)
(*                                                                         *)
(* JavaScript values are records tagged by "kind".  Functions are records  *)
(* of kind "fn" that carry the variables their closure captured; calling   *)
(* one is done by the operators Call (three positional arguments, a        *)
(* TagsCallback) and CallProvider (one argument, a TagsProvider).  A call  *)
(* yields a completion: it returns a value or throws, and it carries the   *)
(* list of caller-supplied callbacks it invoked, in order.                 *)
(***************************************************************************)
EXTENDS Integers, Sequences, FiniteSets, TLC

\* ------------------------------------------------------------------ bounds
\* longest list of items in a result
MaxItems == 2
\* longest list of providers handed to withTags
MaxProviders == 2

\* ------------------------------------------------------- JavaScript values
Undefined == [kind |-> "undefined"]
Null == [kind |-> "null"]
Bool(b) == [kind |-> "bool", b |-> b]
Num(n) == [kind |-> "num", n |-> n]
Str(s) == [kind |-> "str", s |-> s]
Arr(elems) == [kind |-> "arr", elems |-> elems]
\* an object with the fields the extraction functions of the model read
Obj(id, productId, nested) ==
  [kind |-> "obj", id |-> id, productId |-> productId, nested |-> nested]
\* an error object such as { status: 401, error: "" }
ErrObj(status) == [kind |-> "obj", status |-> Num(status), error |-> Str("")]

\* { type, id }
Tag(type, id) == [kind |-> "obj", type |-> Str(type), id |-> id]
\* the id every list tag carries
LIST == Str("LIST")

\* ToBoolean: what `if (x)` and `!x` test
Truthy(v) ==
  CASE v.kind \in {"undefined", "null"} -> FALSE
    [] v.kind = "bool" -> v.b
    [] v.kind = "num" -> v.n # 0
    [] v.kind = "str" -> v.s # ""
    [] OTHER -> TRUE

\* --------------------------------------------------------------- completions
Return(v, calls) == [status |-> "return", value |-> v, calls |-> calls]
Throw(e, calls) == [status |-> "throw", value |-> e, calls |-> calls]
TypeError == Str("TypeError")
\* one entry of the call log: a callback that was invoked and its arguments
CallOf(fn, args) == [fn |-> fn, args |-> args]

\* v.name : a TypeError on undefined and null, undefined for a missing field
GetProp(v, name) ==
  IF v.kind \in {"undefined", "null"} THEN Throw(TypeError, <<>>)
  ELSE IF v.kind = "obj" /\ name \in DOMAIN v THEN Return(v[name], <<>>)
  ELSE Return(Undefined, <<>>)

\* ------------------------------------------- caller-supplied extraction code
\* extractList: "nested" is (result) => result.nested.field, the list being
\*              what Obj keeps as nested: a TypeError when result has no
\*              nested object;
\*              "fixed" is () => [{ id: 1, productId: 2 }]
FixedList == Arr(<<Obj(Num(1), Num(2), Undefined)>>)
ExtractLists == {"nested", "fixed"}
extractList(name, result) ==
  LET n == GetProp(result, "nested")
      c == IF name = "fixed" THEN Return(FixedList, <<>>)
           ELSE IF n.status = "throw" \/ n.value = Undefined
                THEN Throw(TypeError, <<>>)
           ELSE n
  IN [c EXCEPT !.calls = <<CallOf("extractList", <<result>>)>>]

\* extractId: (x) => x.id, (x) => x.productId or (x) => x
ExtractIds == {"id", "productId", "self"}
extractId(name, x) ==
  [(IF name = "self" THEN Return(x, <<>>) ELSE GetProp(x, name))
     EXCEPT !.calls = <<CallOf("extractId", <<x>>)>>]

\* a tags callback of the caller: (result, error, arg) =>
\*   [{ type: "C", id: arg }, ...(error ? ["E"] : []), ...(result ? ["R"] : [])]
ctxTags(result, error, arg) ==
  Return(Arr(<<Tag("C", arg)>>
             \o (IF Truthy(error) THEN <<Str("E")>> ELSE <<>>)
             \o (IF Truthy(result) THEN <<Str("R")>> ELSE <<>>)),
         <<CallOf("ctxTags", <<result, error, arg>>)>>)

\* a tags callback of the caller that fails: (result, error, arg) => {
\*   if (!arg) throw new Error("no arg"); return [{ type: "D", id: arg }] }
NoArgError == Str("Error: no arg")
strictTags(result, error, arg) ==
  IF ~Truthy(arg)
  THEN Throw(NoArgError, <<CallOf("strictTags", <<result, error, arg>>)>>)
  ELSE Return(Arr(<<Tag("D", arg)>>),
              <<CallOf("strictTags", <<result, error, arg>>)>>)

\* ------------------------------------------------------------ function values
Fn(fn, captured) == [kind |-> "fn", fn |-> fn, captured |-> captured]
CtxTagsFn == Fn("ctxTags", <<>>)
StrictTagsFn == Fn("strictTags", <<>>)

\* ------------------------------------------------ callbacks of the providers
\* list.map(({ id }) => ({ type, id })); a TypeError when list has no map
mapItemIds(type, list, calls) ==
  IF list.kind # "arr" THEN Throw(TypeError, calls)
  ELSE Return(Arr([i \in 1..Len(list.elems) |-> Tag(type, list.elems[i].id)]),
              calls)

\* list.map((item) => ({ type, id: extractId(item) })), item by item
RECURSIVE mapExtractId(_, _, _)
mapExtractId(type, xid, elems) ==
  IF elems = <<>> THEN Return(<<>>, <<>>)
  ELSE LET h == extractId(xid, Head(elems))
       IN IF h.status = "throw" THEN h
          ELSE LET t == mapExtractId(type, xid, Tail(elems))
               IN [t EXCEPT !.value = IF t.status = "throw" THEN t.value
                                      ELSE <<Tag(type, h.value)>> \o t.value,
                            !.calls = h.calls \o t.calls]

\* withList without the spread of the mapped items
withListCallbackListOnly(type, result) ==
  IF ~Truthy(result) THEN Return(Arr(<<Tag(type, LIST)>>), <<>>)
  ELSE LET m == mapItemIds(type, result, <<>>)
       IN IF m.status = "throw" THEN m
          ELSE Return(Arr(<<Tag(type, LIST)>>), m.calls)

\* the callback withList hands to createTagsProvider
withListCallback(type, result) ==
  IF ~Truthy(result) THEN Return(Arr(<<Tag(type, LIST)>>), <<>>)
  ELSE LET m == mapItemIds(type, result, <<>>)
       IN IF m.status = "throw" THEN m
          ELSE Return(Arr(<<Tag(type, LIST)>> \o m.value.elems), m.calls)

\* withNestedList answering a missing result as withNestedResultId does
withNestedListCallbackEmpty(type, xl, result) ==
  IF ~Truthy(result) THEN Return(Arr(<<>>), <<>>)
  ELSE LET list == extractList(xl, result)
       IN IF list.status = "throw" THEN list
          ELSE LET m == mapItemIds(type, list.value, list.calls)
               IN IF m.status = "throw" THEN m
                  ELSE Return(Arr(<<Tag(type, LIST)>> \o m.value.elems),
                              m.calls)

\* the callback withNestedList hands to createTagsProvider
withNestedListCallback(type, xl, result) ==
  IF ~Truthy(result) THEN Return(Arr(<<Tag(type, LIST)>>), <<>>)
  ELSE LET list == extractList(xl, result)
       IN IF list.status = "throw" THEN list
          ELSE LET m == mapItemIds(type, list.value, list.calls)
               IN IF m.status = "throw" THEN m
                  ELSE Return(Arr(<<Tag(type, LIST)>> \o m.value.elems),
                              m.calls)

\* the callback withDeepNestedList hands to createTagsProvider
withDeepNestedListCallback(type, xl, xid, result) ==
  IF ~Truthy(result) THEN Return(Arr(<<Tag(type, LIST)>>), <<>>)
  ELSE LET list == extractList(xl, result)
       IN IF list.status = "throw" THEN list
          ELSE IF list.value.kind # "arr" THEN Throw(TypeError, list.calls)
          ELSE LET m == mapExtractId(type, xid, list.value.elems)
               IN IF m.status = "throw"
                  THEN Throw(m.value, list.calls \o m.calls)
                  ELSE Return(Arr(<<Tag(type, LIST)>> \o m.value),
                              list.calls \o m.calls)

\* withArgAsId guarded on the result as the by-result providers are
withArgAsIdCallbackGuarded(type, result, error, arg) ==
  IF ~Truthy(result) THEN Return(Arr(<<>>), <<>>)
  ELSE Return(Arr(<<Tag(type, arg)>>), <<>>)

\* the callback withArgAsId hands to createTagsProvider
withArgAsIdCallback(type, result, error, arg) ==
  Return(Arr(<<Tag(type, arg)>>), <<>>)

\* withNestedArgId extracting the id from the result instead of the argument
withNestedArgIdCallbackOfResult(type, xid, result, error, arg) ==
  LET id == extractId(xid, result)
  IN IF id.status = "throw" THEN id
     ELSE Return(Arr(<<Tag(type, id.value)>>), id.calls)

\* the callback withNestedArgId hands to createTagsProvider
withNestedArgIdCallback(type, xid, result, error, arg) ==
  LET id == extractId(xid, arg)
  IN IF id.status = "throw" THEN id
     ELSE Return(Arr(<<Tag(type, id.value)>>), id.calls)

\* withNestedResultId testing the result for absence:
\* if (result === undefined) return []
withNestedResultIdCallbackByAbsence(type, xid, result) ==
  IF result = Undefined THEN Return(Arr(<<>>), <<>>)
  ELSE LET id == extractId(xid, result)
       IN IF id.status = "throw" THEN id
          ELSE Return(Arr(<<Tag(type, id.value)>>), id.calls)

\* the callback withNestedResultId hands to createTagsProvider
withNestedResultIdCallback(type, xid, result) ==
  IF ~Truthy(result) THEN Return(Arr(<<>>), <<>>)
  ELSE LET id == extractId(xid, result)
       IN IF id.status = "throw" THEN id
          ELSE Return(Arr(<<Tag(type, id.value)>>), id.calls)

\* ----------------------------------------------------- resolution of tags
\* the callbacks the providers of the library hand to createTagsProvider; an
\* invocation of one is logged with its arguments as the caller's callbacks
\* log theirs
BuiltInCallbacks ==
  {"withList", "withNestedList", "withDeepNestedList", "withArgAsId",
   "withNestedArgId", "withNestedResultId"}
RECURSIVE Call(_, _, _, _)
RECURSIVE getTags(_, _, _, _)
RECURSIVE concatTags(_, _, _, _, _)

\* getTags(result, error, arg)(tags)
\* a getTags that catches what a callback throws and provides no tags then
getTagsCatching(result, error, arg, tags) ==
  IF ~Truthy(tags) THEN Return(Arr(<<>>), <<>>)
  ELSE IF tags.kind = "fn"
       THEN LET c == Call(tags, result, error, arg)
            IN IF c.status = "throw" THEN Return(Arr(<<>>), c.calls) ELSE c
  ELSE Return(tags, <<>>)

\* a getTags that knows literal lists only: a callback counts as no tags
getTagsLiteralOnly(result, error, arg, tags) ==
  IF ~Truthy(tags) \/ tags.kind = "fn" THEN Return(Arr(<<>>), <<>>)
  ELSE Return(tags, <<>>)

getTags(result, error, arg, tags) ==
  IF ~Truthy(tags) THEN Return(Arr(<<>>), <<>>)
  ELSE IF tags.kind = "fn" THEN Call(tags, result, error, arg)
  ELSE Return(tags, <<>>)

\* concatTags as a set union would do it: a tag already on the left is dropped
concatTagsDedup(result, error, arg, tagsLeft, tagsRight) ==
  LET l == getTags(result, error, arg, tagsLeft)
  IN IF l.status = "throw" THEN l
     ELSE LET r == getTags(result, error, arg, tagsRight)
          IN IF r.status = "throw" THEN Throw(r.value, l.calls \o r.calls)
             ELSE Return(Arr(l.value.elems
                             \o SelectSeq(r.value.elems,
                                          LAMBDA t : \A i \in 1..Len(l.value.elems) :
                                                       l.value.elems[i] # t)),
                         l.calls \o r.calls)

\* concatTags resolving the right tag source before the left one
concatTagsRightFirst(result, error, arg, tagsLeft, tagsRight) ==
  LET r == getTags(result, error, arg, tagsRight)
  IN IF r.status = "throw" THEN r
     ELSE LET l == getTags(result, error, arg, tagsLeft)
          IN IF l.status = "throw" THEN Throw(l.value, r.calls \o l.calls)
             ELSE Return(Arr(l.value.elems \o r.value.elems),
                         r.calls \o l.calls)

\* concatTags(result, error, arg)(tagsLeft)(tagsRight):
\* [...tagsGetter(tagsLeft), ...tagsGetter(tagsRight)], left evaluated first
concatTags(result, error, arg, tagsLeft, tagsRight) ==
  LET l == getTags(result, error, arg, tagsLeft)
  IN IF l.status = "throw" THEN l
     ELSE LET r == getTags(result, error, arg, tagsRight)
          IN IF r.status = "throw" THEN Throw(r.value, l.calls \o r.calls)
             ELSE Return(Arr(l.value.elems \o r.value.elems),
                         l.calls \o r.calls)

\* a resolver that provides nothing when the request failed
resolverBodyOnSuccess(providingTags, tags, result, error, arg) ==
  IF Truthy(error) THEN Return(Arr(<<>>), <<>>)
  ELSE concatTags(result, error, arg, providingTags, tags)

\* the resolver createTagsProvider(providingTags)(tags) returns
resolverBody(providingTags, tags, result, error, arg) ==
  concatTags(result, error, arg, providingTags, tags)

\* invalidateOnSuccess gated on a missing result instead of on the error
invalidateOnSuccessBodyByResult(successTags, result, error, arg) ==
  IF ~Truthy(result) THEN Return(Arr(<<>>), <<>>)
  ELSE getTags(result, error, arg, successTags)

\* invalidateOnSuccess resolving its success tags before it looks at the error
invalidateOnSuccessBodyEager(successTags, result, error, arg) ==
  LET t == getTags(result, error, arg, successTags)
  IN IF t.status = "throw" THEN t
     ELSE IF Truthy(error) THEN Return(Arr(<<>>), t.calls)
     ELSE t

\* invalidateOnSuccess gated on the error being there at all:
\* if (error !== undefined) return []
invalidateOnSuccessBodyByPresence(successTags, result, error, arg) ==
  IF error # Undefined THEN Return(Arr(<<>>), <<>>)
  ELSE getTags(result, error, arg, successTags)

\* the resolver invalidateOnSuccess(successTags) returns
invalidateOnSuccessBody(successTags, result, error, arg) ==
  IF Truthy(error) THEN Return(Arr(<<>>), <<>>)
  ELSE getTags(result, error, arg, successTags)

\* f(result, error, arg) for a value f; calling a non-function is a TypeError
Call(f, result, error, arg) ==
  IF f.kind # "fn" THEN Throw(TypeError, <<>>)
  ELSE LET c == f.captured
           done ==
             CASE f.fn = "resolver" ->
                    resolverBody(c.providingTags, c.tags, result, error, arg)
               [] f.fn = "invalidateOnSuccess" ->
                    invalidateOnSuccessBody(c.successTags, result, error, arg)
               [] f.fn = "withList" -> withListCallback(c.type, result)
               [] f.fn = "withNestedList" ->
                    withNestedListCallback(c.type, c.extractList, result)
               [] f.fn = "withDeepNestedList" ->
                    withDeepNestedListCallback(c.type, c.extractList,
                                               c.extractId, result)
               [] f.fn = "withArgAsId" ->
                    withArgAsIdCallback(c.type, result, error, arg)
               [] f.fn = "withNestedArgId" ->
                    withNestedArgIdCallback(c.type, c.extractId,
                                            result, error, arg)
               [] f.fn = "withNestedResultId" ->
                    withNestedResultIdCallback(c.type, c.extractId, result)
               [] f.fn = "ctxTags" -> ctxTags(result, error, arg)
               [] f.fn = "strictTags" -> strictTags(result, error, arg)
       IN IF f.fn \in BuiltInCallbacks
          THEN [done EXCEPT
                  !.calls = <<CallOf(f.fn, <<result, error, arg>>)>> \o @]
          ELSE done

\* ------------------------------------------------------------- the providers
\* createTagsProvider(providingTags): (tags) => (result, error, arg) => ...
createTagsProvider(providingTags) ==
  Fn("provider", [providingTags |-> providingTags])

withList(type) == createTagsProvider(Fn("withList", [type |-> type]))
withNestedList(type, xl) ==
  createTagsProvider(Fn("withNestedList", [type |-> type, extractList |-> xl]))
withDeepNestedList(type, xl, xid) ==
  createTagsProvider(Fn("withDeepNestedList",
                        [type |-> type, extractList |-> xl, extractId |-> xid]))
withArgAsId(type) == createTagsProvider(Fn("withArgAsId", [type |-> type]))
withNestedArgId(type, xid) ==
  createTagsProvider(Fn("withNestedArgId", [type |-> type, extractId |-> xid]))
withNestedResultId(type, xid) ==
  createTagsProvider(Fn("withNestedResultId",
                        [type |-> type, extractId |-> xid]))
\* an invalidateList that looks at the result as withList does
invalidateListAsWithList(type) == withList(type)
invalidateList(type) == createTagsProvider(Arr(<<Tag(type, LIST)>>))
invalidateOnSuccess(successTags) ==
  Fn("invalidateOnSuccess", [successTags |-> successTags])

\* provider(tags) for a function value built above
RECURSIVE CallProvider(_, _)
RECURSIVE composeFrom(_, _, _)
\* a composition that keeps its first function only
composeFromFirstOnly(fns, i, x) ==
  IF i = 0 THEN x ELSE CallProvider(fns[1], x)

\* f1(f2(...fn(x))) : the functions are applied from the last to the first
composeFrom(fns, i, x) ==
  IF i = 0 THEN x ELSE composeFrom(fns, i - 1, CallProvider(fns[i], x))
\* a provider that resolves a tags callback when it is applied, before any
\* request was made, and keeps the list
CallProviderEager(p, tags) ==
  CASE p.fn = "provider" ->
         Fn("resolver",
            [providingTags |-> p.captured.providingTags,
             tags |-> IF tags.kind = "fn"
                      THEN LET c == Call(tags, Undefined, Undefined, Undefined)
                           IN IF c.status = "return" THEN c.value
                              ELSE Arr(<<>>)
                      ELSE tags])
    [] p.fn = "composed" -> composeFrom(p.captured.fns, Len(p.captured.fns), tags)
    [] p.fn = "identity" -> tags

CallProvider(p, tags) ==
  CASE p.fn = "provider" ->
         Fn("resolver", [providingTags |-> p.captured.providingTags,
                         tags |-> tags])
    [] p.fn = "composed" -> composeFrom(p.captured.fns, Len(p.captured.fns), tags)
    [] p.fn = "identity" -> tags

\* withTags as ramda's pipe would compose: the first provider applied first
withTagsPipe(tagsProviders) ==
  IF Len(tagsProviders) = 0
  THEN Throw(Str("compose requires at least one argument"), <<>>)
  ELSE Return(Fn("composed",
                 [fns |-> [i \in 1..Len(tagsProviders) |->
                             tagsProviders[Len(tagsProviders) + 1 - i]]]),
              <<>>)

\* withTags of src/CacheUtils.ts: compose(...tagsProviders); ramda's compose
\* throws "compose requires at least one argument" when given none
withTags(tagsProviders) ==
  IF Len(tagsProviders) = 0
  THEN Throw(Str("compose requires at least one argument"), <<>>)
  ELSE Return(Fn("composed", [fns |-> tagsProviders]), <<>>)

\* withTags of src/unnamed/part_000: composeWith((fn, res) => fn(res))(list);
\* ramda's composeWith is pipeWith on the reversed list, and pipeWith returns
\* identity for an empty list
withTagsComposeWith(tagsProviders) ==
  IF Len(tagsProviders) = 0 THEN Return(Fn("identity", <<>>), <<>>)
  ELSE Return(Fn("composed", [fns |-> tagsProviders]), <<>>)

\* ------------------------------------------------------------ sampled inputs
\* the tag types of the CacheUtils instance
Types == {"A", "B"}
Items == {Obj(Num(1), Num(2), Undefined), Obj(Num(2), Num(1), Undefined)}
ItemLists == UNION {[1..n -> Items] : n \in 0..MaxItems}
\* results: absent, present but falsy, a number, lists, objects nesting a list
Results ==
  {Undefined, Null, Bool(FALSE), Num(0), Str(""), Num(5)}
    \cup {Arr(l) : l \in ItemLists}
    \cup {Obj(Num(7), Num(8), Arr(l)) : l \in ItemLists}
Errors == {Undefined, Null, Bool(FALSE), Num(0), Str(""), ErrObj(401)}
Args == {Undefined, Num(5), Str("1"), Obj(Num(3), Num(4), Undefined)}
\* extra tags and success tags: absent, literal lists, callbacks
TagSources ==
  {Undefined, Arr(<<>>), Arr(<<Str("C"), Tag("A", LIST)>>), CtxTagsFn,
   StrictTagsFn}
\* the callbacks the caller builds providers of his own from
OwnCallbacks == {CtxTagsFn, StrictTagsFn}
\* the contexts the compositions are resolved against
TagsResults ==
  {Undefined, Arr(<<Obj(Num(1), Num(2), Undefined),
                    Obj(Num(2), Num(1), Undefined)>>),
   Obj(Num(7), Num(8), Arr(<<Obj(Num(2), Num(1), Undefined)>>))}
TagsErrors == {Undefined, ErrObj(401)}
TagsArgs == {Num(5), Obj(Num(3), Num(4), Undefined)}
\* ... and the arguments of repeated invocations: a void argument too
AgainArgs == TagsArgs \cup {Undefined}

\* -------------------------------------------------------------------- state
VARIABLES
  pc,         \* "idle", "provider", "resolver", "done" or "usageError"
  providers,  \* the providers created so far, in order
  via,        \* how the provider or resolver was built
  provider,   \* the provider withTags returned
  extraTags,  \* the tags the provider was applied to
  resolver,   \* the (result, error, arg) callback handed to RTK Query
  ctx,        \* the context of the last invocation of the resolver
  out,        \* the completion of the last call
  prev        \* the extra tags, context and completion of the invocation
              \* before the last one, on this provider object
vars == <<pc, providers, via, provider, extraTags, resolver, ctx, out, prev>>

NoCtx == [result |-> Undefined, error |-> Undefined, arg |-> Undefined]
NoOut == [status |-> "none", value |-> Undefined, calls |-> <<>>]
NoPrev == [extraTags |-> Undefined, ctx |-> NoCtx, out |-> NoOut]

Init ==
  /\ pc = "idle"
  /\ providers = <<>>
  /\ via = "none"
  /\ provider = Undefined
  /\ extraTags = Undefined
  /\ resolver = Undefined
  /\ ctx = NoCtx
  /\ out = NoOut
  /\ prev = NoPrev

\* a provider can be created while the list is shorter than limit
CanAdd(limit) == pc = "idle" /\ Len(providers) < limit

WithList(type, limit) ==
  /\ CanAdd(limit)
  /\ providers' = Append(providers, withList(type))
  /\ UNCHANGED <<pc, via, provider, extraTags, resolver, ctx, out, prev>>

WithNestedList(type, xl, limit) ==
  /\ CanAdd(limit)
  /\ providers' = Append(providers, withNestedList(type, xl))
  /\ UNCHANGED <<pc, via, provider, extraTags, resolver, ctx, out, prev>>

WithDeepNestedList(type, xl, xid, limit) ==
  /\ CanAdd(limit)
  /\ providers' = Append(providers, withDeepNestedList(type, xl, xid))
  /\ UNCHANGED <<pc, via, provider, extraTags, resolver, ctx, out, prev>>

WithArgAsId(type, limit) ==
  /\ CanAdd(limit)
  /\ providers' = Append(providers, withArgAsId(type))
  /\ UNCHANGED <<pc, via, provider, extraTags, resolver, ctx, out, prev>>

WithNestedArgId(type, xid, limit) ==
  /\ CanAdd(limit)
  /\ providers' = Append(providers, withNestedArgId(type, xid))
  /\ UNCHANGED <<pc, via, provider, extraTags, resolver, ctx, out, prev>>

WithNestedResultId(type, xid, limit) ==
  /\ CanAdd(limit)
  /\ providers' = Append(providers, withNestedResultId(type, xid))
  /\ UNCHANGED <<pc, via, provider, extraTags, resolver, ctx, out, prev>>

InvalidateList(type, limit) ==
  /\ CanAdd(limit)
  /\ providers' = Append(providers, invalidateList(type))
  /\ UNCHANGED <<pc, via, provider, extraTags, resolver, ctx, out, prev>>

\* a provider of the caller's own: createTagsProvider(callback)
CreateTagsProvider(providingTags, limit) ==
  /\ CanAdd(limit)
  /\ providers' = Append(providers, createTagsProvider(providingTags))
  /\ UNCHANGED <<pc, via, provider, extraTags, resolver, ctx, out, prev>>

\* invalidateOnSuccess(successTags) is itself the resolver
InvalidateOnSuccess(successTags) ==
  /\ pc = "idle"
  /\ providers = <<>>
  /\ via' = "invalidateOnSuccess"
  /\ extraTags' = successTags
  /\ resolver' = invalidateOnSuccess(successTags)
  /\ pc' = "resolver"
  /\ UNCHANGED <<providers, provider, ctx, out, prev>>

\* provider(tags) on the one provider created, without withTags
Apply(tags) ==
  /\ pc = "idle"
  /\ Len(providers) = 1
  /\ via' = "direct"
  /\ extraTags' = tags
  /\ resolver' = CallProvider(providers[1], tags)
  /\ pc' = "resolver"
  /\ UNCHANGED <<providers, provider, ctx, out, prev>>

\* withTags(providers) of src/CacheUtils.ts
WithTags ==
  /\ pc = "idle"
  /\ via' = "compose"
  /\ out' = withTags(providers)
  /\ provider' = IF out'.status = "return" THEN out'.value ELSE Undefined
  /\ pc' = IF out'.status = "return" THEN "provider" ELSE "usageError"
  /\ UNCHANGED <<providers, extraTags, resolver, ctx, prev>>

\* withTags(providers) of src/unnamed/part_000
WithTagsComposeWith ==
  /\ pc = "idle"
  /\ via' = "composeWith"
  /\ out' = withTagsComposeWith(providers)
  /\ provider' = IF out'.status = "return" THEN out'.value ELSE Undefined
  /\ pc' = IF out'.status = "return" THEN "provider" ELSE "usageError"
  /\ UNCHANGED <<providers, extraTags, resolver, ctx, prev>>

\* withTags(providers)(tags)
ApplyTags(tags) ==
  /\ pc = "provider"
  /\ extraTags' = tags
  /\ resolver' = CallProvider(provider, tags)
  /\ pc' = "resolver"
  /\ UNCHANGED <<providers, via, provider, ctx, out, prev>>

\* RTK Query calls resolver(result, error, arg)
Invoke(result, error, arg) ==
  /\ pc = "resolver"
  /\ ctx' = [result |-> result, error |-> error, arg |-> arg]
  /\ out' = Call(resolver, result, error, arg)
  /\ pc' = "done"
  /\ UNCHANGED <<providers, via, provider, extraTags, resolver, prev>>

\* a resolver that remembers the last result and falls back on it when the
\* result is absent
InvokeAgainRemembering(result, error, arg) ==
  /\ pc = "done"
  /\ prev' = [extraTags |-> extraTags, ctx |-> ctx, out |-> out]
  /\ ctx' = [result |-> result, error |-> error, arg |-> arg]
  /\ out' = Call(resolver, IF result = Undefined THEN ctx.result ELSE result,
                 error, arg)
  /\ UNCHANGED <<pc, providers, via, provider, extraTags, resolver>>

\* RTK Query calls the same resolver once more
InvokeAgain(result, error, arg) ==
  /\ pc = "done"
  /\ prev' = [extraTags |-> extraTags, ctx |-> ctx, out |-> out]
  /\ ctx' = [result |-> result, error |-> error, arg |-> arg]
  /\ out' = Call(resolver, result, error, arg)
  /\ UNCHANGED <<pc, providers, via, provider, extraTags, resolver>>

\* the same provider object is applied to other extra tags: a second resolver
ApplyAgain(tags) ==
  /\ pc = "done"
  /\ via = "direct"
  /\ prev' = [extraTags |-> extraTags, ctx |-> ctx, out |-> out]
  /\ extraTags' = tags
  /\ resolver' = CallProvider(providers[1], tags)
  /\ ctx' = NoCtx
  /\ out' = NoOut
  /\ pc' = "resolver"
  /\ UNCHANGED <<providers, via, provider>>

\* getTags(result, error, arg)(tags) called on its own
GetTags(result, error, arg, tags) ==
  /\ pc = "idle"
  /\ providers = <<>>
  /\ via' = "getTags"
  /\ extraTags' = tags
  /\ ctx' = [result |-> result, error |-> error, arg |-> arg]
  /\ out' = getTags(result, error, arg, tags)
  /\ pc' = "done"
  /\ UNCHANGED <<providers, provider, resolver, prev>>

\* the next endpoint definition starts from scratch
Reset ==
  /\ pc \in {"done", "usageError"}
  /\ pc' = "idle"
  /\ providers' = <<>>
  /\ via' = "none"
  /\ provider' = Undefined
  /\ extraTags' = Undefined
  /\ resolver' = Undefined
  /\ ctx' = NoCtx
  /\ out' = NoOut
  /\ prev' = NoPrev

\* one provider, applied directly, resolved against every sampled context
Next ==
  \/ \E t \in Types : WithList(t, 1)
  \/ \E t \in Types, xl \in ExtractLists : WithNestedList(t, xl, 1)
  \/ \E t \in Types, xl \in ExtractLists, xid \in ExtractIds :
       WithDeepNestedList(t, xl, xid, 1)
  \/ \E t \in Types : WithArgAsId(t, 1)
  \/ \E t \in Types, xid \in ExtractIds : WithNestedArgId(t, xid, 1)
  \/ \E t \in Types, xid \in ExtractIds : WithNestedResultId(t, xid, 1)
  \/ \E t \in Types : InvalidateList(t, 1)
  \/ \E b \in OwnCallbacks : CreateTagsProvider(b, 1)
  \/ \E s \in TagSources : InvalidateOnSuccess(s)
  \/ \E tags \in TagSources : Apply(tags)
  \/ \E r \in Results, e \in Errors, a \in Args : Invoke(r, e, a)
  \/ \E r \in Results, e \in Errors, a \in Args, tags \in TagSources :
       GetTags(r, e, a, tags)
  \/ Reset

Spec == Init /\ [][Next]_vars

\* lists of providers composed by withTags
NextTags ==
  \/ \E t \in Types : WithList(t, MaxProviders)
  \/ \E t \in Types : WithNestedList(t, "nested", MaxProviders)
  \/ \E t \in Types : WithDeepNestedList(t, "nested", "productId", MaxProviders)
  \/ \E t \in Types : WithArgAsId(t, MaxProviders)
  \/ \E t \in Types : WithNestedArgId(t, "id", MaxProviders)
  \/ \E t \in Types : WithNestedResultId(t, "id", MaxProviders)
  \/ \E t \in Types : InvalidateList(t, MaxProviders)
  \/ \E b \in OwnCallbacks : CreateTagsProvider(b, MaxProviders)
  \/ WithTags
  \/ WithTagsComposeWith
  \/ \E tags \in TagSources : ApplyTags(tags)
  \/ \E r \in TagsResults, e \in TagsErrors, a \in TagsArgs : Invoke(r, e, a)
  \/ Reset

SpecTags == Init /\ [][NextTags]_vars

\* one provider object, applied to extra tags more than once, every resolver
\* invoked more than once
NextAgain ==
  \/ \E t \in Types : WithList(t, 1)
  \/ \E t \in Types : WithNestedList(t, "nested", 1)
  \/ \E t \in Types : WithDeepNestedList(t, "nested", "productId", 1)
  \/ \E t \in Types : WithArgAsId(t, 1)
  \/ \E t \in Types : WithNestedArgId(t, "id", 1)
  \/ \E t \in Types : WithNestedResultId(t, "id", 1)
  \/ \E t \in Types : InvalidateList(t, 1)
  \/ \E b \in OwnCallbacks : CreateTagsProvider(b, 1)
  \/ \E s \in TagSources : InvalidateOnSuccess(s)
  \/ \E tags \in TagSources : Apply(tags)
  \/ \E tags \in TagSources : ApplyAgain(tags)
  \/ \E r \in TagsResults, e \in TagsErrors, a \in AgainArgs : Invoke(r, e, a)
  \/ \E r \in TagsResults, e \in TagsErrors, a \in AgainArgs :
       InvokeAgain(r, e, a)
  \/ Reset

SpecAgain == Init /\ [][NextAgain]_vars

\* ===================================================================== claims
\* the built-in tag source of the one provider applied directly
BuiltIn == providers[1].captured.providingTags
\* the last call was resolver(ctx) for a resolver built as `how`
Resolved(how) == pc = "done" /\ via = how
\* ... by the provider whose built-in callback is `fn`, applied directly
ResolvedBy(fn) ==
  Resolved("direct") /\ BuiltIn.kind = "fn" /\ BuiltIn.fn = fn
\* a tag source resolved against the context of the last invocation
Resolve(tags) == getTags(ctx.result, ctx.error, ctx.arg, tags)
\* the call returned exactly this list of tags
Returned(tags) == out.status = "return" /\ out.value = Arr(tags)
\* one { type, id: item[field] } per item, in the order of the items
ItemTags(type, elems, field) ==
  [i \in 1..Len(elems) |-> Tag(type, elems[i][field])]
\* some tag occurs twice in the list
HasDuplicate(tags) ==
  \E i, j \in 1..Len(tags) : i < j /\ tags[i] = tags[j]

\* C1: a provider built by createTagsProvider, applied to extra tags E and
\* invoked on a context, yields the built-in tags resolved against that
\* context followed by E resolved against the same context: the lengths add
\* and equal tags are neither merged nor removed.
C1_BuiltInThenExtra ==
  Resolved("direct") =>
    LET b == Resolve(BuiltIn)
        e == Resolve(extraTags)
    IN /\ (b.status = "return" /\ e.status = "return") =>
            /\ Returned(b.value.elems \o e.value.elems)
            /\ Len(out.value.elems) = Len(b.value.elems) + Len(e.value.elems)
       /\ b.status = "throw" => out.status = "throw"

\* C1 witness: a built-in { type: "A", id: "LIST" } and the same tag among the
\* extra tags are both in the output
C1_Witness ==
  /\ Resolved("direct")
  /\ extraTags = Arr(<<Str("C"), Tag("A", LIST)>>)
  /\ out.status = "return"
  /\ Len(out.value.elems) >= 4
  /\ HasDuplicate(out.value.elems)

\* the tags of stages i, i+1, ... of the provider list, then the extra tags,
\* each resolved against the context of the last invocation
RECURSIVE StagesFrom(_)
StagesFrom(i) ==
  IF i > Len(providers) THEN Resolve(extraTags)
  ELSE LET h == Resolve(providers[i].captured.providingTags)
       IN IF h.status = "throw" THEN h
          ELSE LET t == StagesFrom(i + 1)
               IN IF t.status = "throw" THEN t
                  ELSE Return(Arr(h.value.elems \o t.value.elems), <<>>)

\* C2: withTags([P1..Pn])(E)(C), n >= 1, is builtIn1(C) ++ ... ++ builtInn(C)
\* ++ resolve(E, C): the stages' tags in the order the stages are listed,
\* the extra tags last.
C2_StagesInListedOrder ==
  (Resolved("compose") /\ Len(providers) >= 1) =>
    LET all == StagesFrom(1)
    IN IF all.status = "return" THEN Returned(all.value.elems)
       ELSE out.status = "throw"

\* C2 witness: withTags([invalidateList("A"), invalidateList("B")]) applied to
\* the literal extra tags
C2_Witness ==
  /\ Resolved("compose")
  /\ providers = <<invalidateList("A"), invalidateList("B")>>
  /\ Returned(<<Tag("A", LIST), Tag("B", LIST), Str("C"), Tag("A", LIST)>>)

\* C3: withTags called with an empty provider list signals a usage error at
\* that call, in src/CacheUtils.ts and in src/unnamed/part_000 alike: no
\* provider comes back, so none is applied and no resolver is invoked.
C3_EmptyListIsUsageError ==
  (via \in {"compose", "composeWith"} /\ providers = <<>>) =>
    /\ pc = "usageError"
    /\ out.status = "throw"
    /\ provider = Undefined
    /\ resolver = Undefined

\* C4: invalidateOnSuccess(S)(result, error, arg) is the empty list when error
\* is present (truthy/non-empty, which is how the specification defines the
\* presence of the error), and otherwise exactly S resolved against
\* (result, error, arg): hence the empty list when S is absent.
C4_OnSuccessGate ==
  Resolved("invalidateOnSuccess") =>
    IF Truthy(ctx.error) THEN Returned(<<>>)
    ELSE /\ out.status = Resolve(extraTags).status
         /\ out.value = Resolve(extraTags).value
         /\ extraTags = Undefined => Returned(<<>>)

\* C4 witness: literal success tags suppressed by an error object, with a
\* result present
C4_Witness ==
  /\ Resolved("invalidateOnSuccess")
  /\ extraTags = Arr(<<Str("C"), Tag("A", LIST)>>)
  /\ ctx.error = ErrObj(401)
  /\ Truthy(ctx.result)
  /\ Returned(<<>>)

\* C5: for a result that is a list of items x1..xk, k >= 0, withList(t)()
\* yields { type: t, id: "LIST" } and then one { type: t, id: xi.id } per item
\* in the order of the result: no item skipped, reordered or deduplicated.
C5_ListThenItemIds ==
  (ResolvedBy("withList") /\ extraTags = Undefined /\ ctx.result.kind = "arr") =>
    Returned(<<Tag(BuiltIn.captured.type, LIST)>>
             \o ItemTags(BuiltIn.captured.type, ctx.result.elems, "id"))

\* C5 witness: a result that lists the same item twice
C5_Witness ==
  /\ ResolvedBy("withList")
  /\ extraTags = Undefined
  /\ ctx.result.kind = "arr"
  /\ Len(ctx.result.elems) = MaxItems
  /\ ctx.result.elems[1] = ctx.result.elems[2]
  /\ Len(out.value.elems) = MaxItems + 1

\* C6: the built-in output of withList, withNestedList and withDeepNestedList
\* is never empty and starts with { type: t, id: "LIST" }; with the result
\* absent it is exactly that one tag, whatever the error and the argument.
C6_ListTagAlways ==
  (Resolved("direct") /\ BuiltIn.kind = "fn"
     /\ BuiltIn.fn \in {"withList", "withNestedList", "withDeepNestedList"}) =>
    LET list == Tag(BuiltIn.captured.type, LIST)
        b == Resolve(BuiltIn)
        e == Resolve(extraTags)
    IN /\ b.status = "return" =>
            /\ b.value.elems # <<>>
            /\ b.value.elems[1] = list
            /\ e.status = "return" =>
                 out.status = "return" /\ out.value.elems[1] = list
       /\ ctx.result = Undefined =>
            /\ b.status = "return"
            /\ b.value = Arr(<<list>>)
            /\ e.status = "return" => Returned(<<list>> \o e.value.elems)

\* C6 witness: withNestedList resolved with the result absent and an error
C6_Witness ==
  /\ ResolvedBy("withNestedList")
  /\ ctx.result = Undefined
  /\ ctx.error = ErrObj(401)
  /\ extraTags = Undefined
  /\ Returned(<<Tag(BuiltIn.captured.type, LIST)>>)

\* C7: with the result present, withNestedList(t, extractList)() yields
\* { type: t, id: "LIST" } and then one { type: t, id: item.id } per item of
\* extractList(result), in the order of the extracted list.
C7_NestedListWhenPresent ==
  (ResolvedBy("withNestedList") /\ extraTags = Undefined
     /\ ctx.result # Undefined) =>
    LET list == extractList(BuiltIn.captured.extractList, ctx.result)
    IN (list.status = "return" /\ list.value.kind = "arr") =>
         Returned(<<Tag(BuiltIn.captured.type, LIST)>>
                  \o ItemTags(BuiltIn.captured.type, list.value.elems, "id"))

\* C8: with the result present, withDeepNestedList(t, extractList, extractId)()
\* yields { type: t, id: "LIST" } and then one { type: t, id: extractId(item) }
\* per item of extractList(result), in list order; the id field of an item is
\* not consulted.
C8_DeepNestedListWhenPresent ==
  (ResolvedBy("withDeepNestedList") /\ extraTags = Undefined
     /\ ctx.result # Undefined) =>
    LET list == extractList(BuiltIn.captured.extractList, ctx.result)
    IN (list.status = "return" /\ list.value.kind = "arr") =>
         Returned(<<Tag(BuiltIn.captured.type, LIST)>>
                  \o ItemTags(BuiltIn.captured.type, list.value.elems,
                              BuiltIn.captured.extractId))

\* C9: withArgAsId(t)() yields exactly [{ type: t, id: arg }], the id being
\* the argument itself, whatever the result and the error are.
C9_ArgAsId ==
  (ResolvedBy("withArgAsId") /\ extraTags = Undefined) =>
    Returned(<<Tag(BuiltIn.captured.type, ctx.arg)>>)

\* C9 witness: the argument 5 with the result absent and an error present
C9_Witness ==
  /\ ResolvedBy("withArgAsId")
  /\ extraTags = Undefined
  /\ ctx = [result |-> Undefined, error |-> ErrObj(401), arg |-> Num(5)]
  /\ Returned(<<Tag(BuiltIn.captured.type, Num(5))>>)

\* C10: withNestedArgId(t, extractId)() yields exactly
\* [{ type: t, id: extractId(arg) }], also when the result is absent or the
\* error is present.
C10_NestedArgId ==
  (ResolvedBy("withNestedArgId") /\ extraTags = Undefined) =>
    LET id == extractId(BuiltIn.captured.extractId, ctx.arg)
    IN IF id.status = "return"
       THEN Returned(<<Tag(BuiltIn.captured.type, id.value)>>)
       ELSE out.status = "throw"

\* C10 witness: the id 3 read from the argument { id: 3, productId: 4 } with
\* the result absent and an error present
C10_Witness ==
  /\ ResolvedBy("withNestedArgId")
  /\ extraTags = Undefined
  /\ BuiltIn.captured.extractId = "id"
  /\ ctx = [result |-> Undefined, error |-> ErrObj(401),
            arg |-> Obj(Num(3), Num(4), Undefined)]
  /\ Returned(<<Tag(BuiltIn.captured.type, Num(3))>>)

\* the extractId function the one provider applied directly captured
BuiltInExtractId == BuiltIn.captured.extractId

\* C11: withNestedResultId(t, extractId)() yields [] when the result is
\* absent, otherwise exactly [{ type: t, id: extractId(result) }].
C11_NestedResultIdWhenPresent ==
  (ResolvedBy("withNestedResultId") /\ extraTags = Undefined) =>
    LET id == extractId(BuiltInExtractId, ctx.result)
    IN IF ctx.result = Undefined THEN Returned(<<>>)
       ELSE id.status = "return" =>
              Returned(<<Tag(BuiltIn.captured.type, id.value)>>)

\* C12: invalidateList(t)() yields exactly [{ type: t, id: "LIST" }] for
\* every context, whatever the result, the error and the argument are.
C12_InvalidateListOnly ==
  \A t \in Types :
    (Resolved("direct") /\ providers[1] = invalidateList(t)
       /\ extraTags = Undefined) =>
      Returned(<<Tag(t, LIST)>>)

\* C12 witness: invalidateList("B")() resolved against a list of items with
\* an error present
C12_Witness ==
  /\ Resolved("direct")
  /\ providers[1] = invalidateList("B")
  /\ extraTags = Undefined
  /\ ctx.result.kind = "arr" /\ Len(ctx.result.elems) = MaxItems
  /\ Truthy(ctx.error)
  /\ Returned(<<Tag("B", LIST)>>)

\* C13: getTags(result, error, arg)(source) never fails by itself. It returns
\* [] when source is absent; the literal list itself, same elements in the
\* same order whatever the context, when source is a list; and what
\* source(result, error, arg) returns or throws when source is a callback.
C13_GetTagsBySource ==
  Resolved("getTags") =>
    CASE extraTags = Undefined -> Returned(<<>>) /\ out.calls = <<>>
      [] extraTags.kind = "arr" ->
           out.status = "return" /\ out.value = extraTags /\ out.calls = <<>>
      [] extraTags = CtxTagsFn ->
           out = ctxTags(ctx.result, ctx.error, ctx.arg)
      [] extraTags = StrictTagsFn ->
           out = strictTags(ctx.result, ctx.error, ctx.arg)

\* C13 witness: the callback resolved by getTags saw the error and the result
\* of the context it was resolved against
C13_Witness ==
  /\ Resolved("getTags")
  /\ extraTags = CtxTagsFn
  /\ Returned(<<Tag("C", ctx.arg), Str("E"), Str("R")>>)
  /\ ctx.arg # Undefined

\* the resolver was built by withTags from at least one provider
Composed == pc = "done" /\ via \in {"compose", "composeWith"}
              /\ Len(providers) >= 1
\* every provider composed is one of the library's: none was built by the
\* caller from a callback of his own
LibraryProviders ==
  \A i \in 1..Len(providers) :
    providers[i].captured.providingTags \notin OwnCallbacks

\* C14: for every provider other than invalidateOnSuccess and every withTags
\* composition of them, used with absent or literal extra tags, two
\* invocations that agree on the result and the argument and differ in the
\* error produce the same list of tags.
C14_ErrorIndependent ==
  (Composed /\ LibraryProviders /\ extraTags.kind # "fn") =>
    \A e \in Errors :
      LET other == Call(resolver, ctx.result, e, ctx.arg)
      IN other.status = out.status /\ other.value = out.value

\* C14 witness: two stages and literal extra tags resolved with an error
\* present gave the items' tags
C14_Witness ==
  /\ Composed
  /\ LibraryProviders
  /\ Len(providers) = 2
  /\ extraTags = Arr(<<Str("C"), Tag("A", LIST)>>)
  /\ ctx.error = ErrObj(401)
  /\ out.status = "return"
  /\ Len(out.value.elems) >= 5

\* what the caller's code in the built-in tag source does in the context of
\* the last invocation: the extraction function the built-in callback calls
\* on the result or on the argument, or the caller's own built-in callback;
\* NoOut when there is none
BuiltInExtraction ==
  IF BuiltIn.kind # "fn" THEN NoOut
  ELSE LET c == BuiltIn.captured
       IN CASE BuiltIn.fn \in {"withNestedList", "withDeepNestedList"}
                 /\ Truthy(ctx.result) ->
                 extractList(c.extractList, ctx.result)
            [] BuiltIn.fn = "withNestedArgId" -> extractId(c.extractId, ctx.arg)
            [] BuiltIn.fn = "withNestedResultId" /\ Truthy(ctx.result) ->
                 extractId(c.extractId, ctx.result)
            [] BuiltIn = CtxTagsFn -> ctxTags(ctx.result, ctx.error, ctx.arg)
            [] BuiltIn = StrictTagsFn ->
                 strictTags(ctx.result, ctx.error, ctx.arg)
            [] OTHER -> NoOut
\* what a tags callback of the caller does in the context of the last
\* invocation; NoOut when the tag source is no callback
TagsCallbackRun(tags) ==
  CASE tags = CtxTagsFn -> ctxTags(ctx.result, ctx.error, ctx.arg)
    [] tags = StrictTagsFn -> strictTags(ctx.result, ctx.error, ctx.arg)
    [] OTHER -> NoOut
\* the invocation failed with this thrown value
Threw(value) == out.status = "throw" /\ out.value = value
\* the invocation before the last one was on this resolver and it failed
FailedBefore == prev.out.status = "throw" /\ prev.extraTags = extraTags

\* C15: when a callback of the caller (extractList, extractId, a built-in or
\* extra-tags callback, the successTags callback) fails, the invocation of the resolver
\* fails with that same failure and returns no tags; a later invocation of
\* the same resolver on a context where the callbacks succeed returns the
\* normal result.
C15_FailurePropagates ==
  pc = "done" =>
    /\ via = "direct" =>
         LET x == BuiltInExtraction
             b == Resolve(BuiltIn)
             e == TagsCallbackRun(extraTags)
         IN /\ x.status = "throw" => Threw(x.value)
            /\ (b.status = "return" /\ e.status = "throw") => Threw(e.value)
            /\ (FailedBefore /\ b.status = "return" /\ e.status # "throw") =>
                 Returned(b.value.elems \o Resolve(extraTags).value.elems)
    /\ (via = "invalidateOnSuccess" /\ ~Truthy(ctx.error)) =>
         LET s == TagsCallbackRun(extraTags)
         IN /\ s.status = "throw" => Threw(s.value)
            /\ (FailedBefore /\ s.status = "return") =>
                 Returned(s.value.elems)

\* C15 witness: a resolver whose extra-tags callback threw on a void argument
\* provided the item tags and the callback's tag on its next invocation
C15_Witness ==
  /\ Resolved("direct")
  /\ extraTags = StrictTagsFn
  /\ FailedBefore
  /\ prev.out.value = NoArgError
  /\ out.status = "return"
  /\ Len(out.value.elems) >= 3

\* a tag of one item: a { type, id } whose id is not "LIST"
IsItemTag(tag) == tag.kind = "obj" /\ tag.id # LIST
\* the built-in callback provides one tag per item of a list
ListProviders == {"withList", "withNestedList", "withDeepNestedList"}

RECURSIVE NestedFrom(_)
NestedFrom(i) ==
  IF i > Len(providers) THEN extraTags
  ELSE CallProvider(providers[i], NestedFrom(i + 1))

\* C17: withTags([P1..Pn])(E)(C) equals P1(P2(...Pn(E)...))(C), the providers
\* nested by hand; withTags([P])(E)(C) equals P(E)(C).
C17_ComposedIsNested ==
  (Resolved("compose") /\ Len(providers) >= 1) =>
    /\ out = Call(NestedFrom(1), ctx.result, ctx.error, ctx.arg)
    /\ Len(providers) = 1 =>
         out = Call(CallProvider(providers[1], extraTags),
                    ctx.result, ctx.error, ctx.arg)

\* C17 witness: two different providers composed, applied to a callback and
\* resolved to tags of both and of the callback
C17_Witness ==
  /\ Resolved("compose")
  /\ Len(providers) = 2
  /\ providers[1] = withList("A")
  /\ providers[2] = withArgAsId("B")
  /\ extraTags = CtxTagsFn
  /\ out.status = "return"
  /\ Len(out.value.elems) >= 5

\* C18: invalidateOnSuccess(S) with S a callback: invoked with the error
\* present it does not invoke S at all; invoked with the error absent it
\* invokes S exactly once, with the (result, error, arg) of the invocation.
C18_SuccessTagsInvocations ==
  (Resolved("invalidateOnSuccess") /\ extraTags.kind = "fn") =>
    /\ Truthy(ctx.error) => out.calls = <<>>
    /\ ctx.error = Undefined =>
         out.calls = <<CallOf(extraTags.fn, <<ctx.result, ctx.error, ctx.arg>>)>>

\* C18 witness: the success-tags callback was left alone on a 401 although the
\* result held items
C18_Witness ==
  /\ Resolved("invalidateOnSuccess")
  /\ extraTags = CtxTagsFn
  /\ ctx.error = ErrObj(401)
  /\ ctx.result.kind = "arr" /\ Len(ctx.result.elems) >= 1
  /\ Returned(<<>>)
  /\ out.calls = <<>>

\* the invocations of tags callbacks in the last call, in the order they were
\* made: the log without the extraction functions the callbacks called
TagsCallbackCalls ==
  SelectSeq(out.calls, LAMBDA c : c.fn \notin {"extractList", "extractId"})
\* one invocation of each stage's built-in callback in the listed order, then
\* one of the extra-tags callback, all with the context of the last call
CallsInListedOrder ==
  [i \in 1..(Len(providers) + 1) |->
     CallOf(IF i <= Len(providers)
            THEN providers[i].captured.providingTags.fn
            ELSE extraTags.fn,
            <<ctx.result, ctx.error, ctx.arg>>)]

\* C19: in one invocation of withTags([P1..Pn])(E) whose built-in tag sources
\* and E are callbacks, the callbacks are invoked in the order builtIn1, ...,
\* builtInn, E, each exactly once, each with the (result, error, arg) of the
\* invocation; with one provider the built-in callback runs before E. An
\* invocation that fails stops at the callback that failed.
C19_CallbacksInListedOrder ==
  (Composed /\ extraTags.kind = "fn"
     /\ \A i \in 1..Len(providers) :
          providers[i].captured.providingTags.kind = "fn") =>
    LET made == TagsCallbackCalls
    IN /\ Len(made) <= Len(providers) + 1
       /\ made = SubSeq(CallsInListedOrder, 1, Len(made))
       /\ out.status = "return" => Len(made) = Len(providers) + 1

\* C19 witness: three different callbacks, each invoked once in listed order
C19_Witness ==
  /\ Resolved("compose")
  /\ Len(providers) = 2
  /\ out.status = "return"
  /\ LET made == TagsCallbackCalls
     IN /\ Len(made) = 3
        /\ made[1].fn = "withNestedList"
        /\ made[2].fn = "strictTags"
        /\ made[3].fn = "ctxTags"

\* the tags the resolver r was given k stages down: r itself for k = 0
RECURSIVE TagsPassed(_, _)
TagsPassed(r, k) == IF k = 0 THEN r ELSE TagsPassed(r.captured.tags, k - 1)
\* withTags composed at least one provider and the provider it returned was
\* applied to extra tags
Constructed ==
  pc \in {"resolver", "done"} /\ via \in {"compose", "composeWith"}
    /\ Len(providers) >= 1

\* C20: construction is lazy. Creating providers, composing a non-empty list
\* with withTags and applying the result to extra tags invoke no callback;
\* what a stage passes to the stage before it is an unevaluated resolver, not
\* a list of tags, and the extra tags reach the last stage as they were given;
\* the callbacks run when the resolver is invoked, on its context.
C20_LazyConstruction ==
  /\ pc \in {"idle", "provider", "resolver"} => out.calls = <<>>
  /\ Constructed =>
       /\ \A k \in 0..(Len(providers) - 1) :
            LET r == TagsPassed(resolver, k)
            IN /\ r.kind = "fn" /\ r.fn = "resolver"
               /\ r.captured.providingTags
                    = providers[k + 1].captured.providingTags
       /\ TagsPassed(resolver, Len(providers)) = extraTags
  /\ Composed =>
       \A i \in 1..Len(out.calls) :
         out.calls[i].fn \notin {"extractList", "extractId"} =>
           out.calls[i].args = <<ctx.result, ctx.error, ctx.arg>>

\* C20 witness: two providers with callbacks composed and applied to a
\* callback, the resolver not invoked yet: nothing was called and the first
\* stage holds the second stage's resolver
C20_Witness ==
  /\ pc = "resolver"
  /\ via = "compose"
  /\ Len(providers) = 2
  /\ providers[1].captured.providingTags = CtxTagsFn
  /\ providers[2].captured.providingTags.kind = "fn"
  /\ extraTags = StrictTagsFn
  /\ resolver.captured.tags.fn = "resolver"
  /\ resolver.captured.tags.captured.tags = StrictTagsFn
  /\ out.calls = <<>>

\* the errors that are absent or present but falsy: undefined, null, false,
\* 0 and the empty string
FalsyErrors == {Undefined, Null, Bool(FALSE), Num(0), Str("")}
\* what the success tags give in the context of the last invocation: nothing
\* when absent, the list itself, what the callback returns or throws
SuccessTagsResolved ==
  CASE extraTags = Undefined -> Return(Arr(<<>>), <<>>)
    [] extraTags.kind = "arr" -> Return(extraTags, <<>>)
    [] OTHER -> TagsCallbackRun(extraTags)

\* C21: the gate of invalidateOnSuccess depends on the truthiness of the error
\* alone. The success tags are resolved and returned whenever the error is
\* absent or falsy (0, "", false, null), also when the result is absent; they
\* are suppressed only when the error is truthy, also when the result is
\* present; with the error and the argument kept, no other result changes
\* whether they are suppressed.
C21_GateOnTruthyErrorAlone ==
  Resolved("invalidateOnSuccess") =>
    /\ ctx.error \in FalsyErrors =>
         /\ out.status = SuccessTagsResolved.status
         /\ out.value = SuccessTagsResolved.value
    /\ ctx.error \notin FalsyErrors => Returned(<<>>) /\ out.calls = <<>>
    /\ \A r \in Results :
         LET other == Call(resolver, r, ctx.error, ctx.arg)
         IN (other.calls = <<>>) = (out.calls = <<>>)
            /\ (extraTags.kind # "fn" =>
                  other.status = out.status /\ other.value = out.value)

\* C21 witness: the literal success tags returned in full on the error null
\* with no result
C21_Witness ==
  /\ Resolved("invalidateOnSuccess")
  /\ extraTags = Arr(<<Str("C"), Tag("A", LIST)>>)
  /\ ctx.error = Null
  /\ ctx.result = Undefined
  /\ Returned(<<Str("C"), Tag("A", LIST)>>)

\* the results that are present but falsy: null, false, 0, the empty string
FalsyResults == {Null, Bool(FALSE), Num(0), Str("")}
\* the invocations of extraction functions in the last call
ExtractionCalls ==
  SelectSeq(out.calls, LAMBDA c : c.fn \in {"extractList", "extractId"})

====
